---- MODULE Spec2Model ----
(***************************************************************************)
(* A model of the effect dispatch engine of src/effect/__init__.py:        *)
(* Effect (construction, on/on_success/on_error/after, perform and the     *)
(* callback-chain walker), ParallelEffects and parallel, together with the *)
(* part of the Deferred contract the engine relies on.                     *)
(*                                                                         *)
(* effs holds the Effect objects made so far; built[i] lists, in the order  *)
(* of the on() calls, the pairs that were attached to make effs[i];        *)
(* performed is the index of the Effect that was performed (0 before),     *)
(* handlers the table it was performed against, outcome what that perform  *)
(* returned or raised.  defs holds the Deferreds, fired the firings by the *)
(* environment in order, log the calls made to handlers, perform_effect    *)
(* methods and callbacks, perfs the performs.  python is the major version *)
(* of the interpreter that runs the module, which supports both 2 and 3.   *)
(*                                                                         *)
(* Python values are records tagged by the field t.  Positions in a chain  *)
(* are 1-based here: position 0 is the resolved handler (the source's      *)
(* init_func, "position -1" in the prose), position i >= 1 is the pair     *)
(* self.callbacks[i-1].                                                    *)
(***************************************************************************)
EXTENDS Integers, Sequences, FiniteSets, TLC

VARIABLES effs, built, performed, handlers, defs, fired, log, perfs, outcome,
          python

vars == <<effs, built, performed, handlers, defs, fired, log, perfs, outcome,
          python>>

(***************************************************************************)
(* Bounds of the model.                                                    *)
(***************************************************************************)
\* the longest continuation list built by repeated on() calls
MaxChain == 3
\* the most child Effects given to parallel()
MaxChildren == 2
\* the most Effect objects made from one root Effect, the root included
MaxEffects == 3
\* the most perform calls made on the Effects of one run
MaxPerforms == 2
\* the most Deferreds made when Deferreds are fired with Effects that make
\* further Deferreds
MaxDefs == 2

(***************************************************************************)
(* Python values.                                                          *)
(***************************************************************************)
None == [t |-> "None"]
PyInt(n) == [t |-> "int", v |-> n]
Str(s) == [t |-> "str", s |-> s]
List(items) == [t |-> "list", items |-> items]
Tuple(items) == [t |-> "tuple", items |-> items]
DeferredRef(d) == [t |-> "deferred", id |-> d]
HandlersVal(h) == [t |-> "handlers", table |-> h]
\* an exception instance of class cls constructed with argument arg
Exc(cls, arg) == [t |-> "exc", cls |-> cls, arg |-> arg]
\* the class object of an exception class
ExcType(cls) == [t |-> "type", name |-> cls]
Traceback == [t |-> "traceback"]
\* the (type, value, traceback) triple sys.exc_info() returns while exc is handled
ExcInfo(exc) == Tuple(<<ExcType(exc.cls), exc, Traceback>>)
\* twisted.python.failure.Failure wrapping exc
Failure(exc) == [t |-> "failure", exc |-> exc]

\* an intent object of class type; effects is the attribute of ParallelEffects
Intent(type) == [t |-> "intent", type |-> type, effects |-> <<>>]

\* a callable: the function called fn, the arguments partial() has bound, and
\* the object a bound method belongs to
Fn(name) == [fn |-> name, bound |-> <<>>, self |-> None]
partial(f, x) == [f EXCEPT !.bound = @ \o <<x>>]
BoundMethod(obj, name) == [fn |-> name, bound |-> <<>>, self |-> obj]
\* the absent callback of a pair (Python None in a (success, error) tuple)
NoCb == Fn("None")
IsNone(f) == f.fn = "None"

IsDeferred(v) == v.t = "deferred"
IsEffect(v) == v.t = "effect"
IsFailure(v) == v.t = "failure"

\* seq[i:] of a Python sequence, with the 0-based index i
SliceFrom(seq, i) == SubSeq(seq, i + 1, Len(seq))

(***************************************************************************)
(* class Effect                                                            *)
(***************************************************************************)
\* Effect.__init__
Effect(intent) == [t |-> "effect", intent |-> intent, callbacks |-> <<>>]

with_callbacks(intent, callbacks) ==
    [Effect(intent) EXCEPT !.callbacks = callbacks]

\* Effect.on putting the new pair first
on_Prepend(self, success, error) ==
    with_callbacks(self.intent,
                   <<[success |-> success, error |-> error]>> \o self.callbacks)

\* Effect.on: a new Effect, the receiver's list plus one appended pair
on(self, success, error) ==
    with_callbacks(self.intent,
                   self.callbacks \o <<[success |-> success, error |-> error]>>)

\* the Effect objects after objs[r].on(success, error) extended the
\* receiver's own list and gave it to the new Effect
on_objects_InPlace(objs, r, success, error) ==
    Append([objs EXCEPT ![r] = on(objs[r], success, error)],
           on(objs[r], success, error))

\* the Effect objects after objs[r].on(success, error): the receiver's list
\* is copied by self.callbacks + [...], so only the new Effect is added
on_objects(objs, r, success, error) ==
    Append(objs, on(objs[r], success, error))

on_success(self, callback) == on(self, callback, NoCb)

on_error(self, callback) == on(self, NoCb, callback)

after(self, callback) == on(self, callback, callback)

\* class ParallelEffects, __init__
ParallelEffects(effects) ==
    [t |-> "intent", type |-> "ParallelEffects", effects |-> effects]

parallel(effects) == Effect(ParallelEffects(effects))

\* getattr(self.intent, 'perform_effect', None) is not None
HasPerformEffect(intent) ==
    intent.type \in {"Self", "Both", "ParallelEffects"}

(***************************************************************************)
(* The interpreter state threaded through a perform: the Deferreds that    *)
(* exist, the calls made so far and the performs started so far.           *)
(***************************************************************************)
Machine(d, l, p) == [defs |-> d, log |-> l, perfs |-> p]

\* the outcome of a Python call: a returned value or a raised exception
Return(m, v) == [m |-> m, exc |-> FALSE, val |-> v]
Raise(m, e) == [m |-> m, exc |-> TRUE, val |-> e]

\* the interpreters the module runs under (from __future__ import
\* print_function makes it importable by both)
PythonVersions == {2, 3}

RECURSIVE RaiseStmt(_, _)
\* `raise v`: an exception instance is raised as it is.  Of a tuple, Python 2
\* raises the first item (recursively, when that is a tuple again); under
\* Python 3 a tuple, like anything else that is not an exception, makes the
\* raise statement itself fail with TypeError
RaiseStmt(m, v) ==
    IF v.t = "exc"
    THEN Raise(m, v)
    ELSE IF python = 2 /\ v.t = "tuple" /\ Len(v.items) > 0
    THEN RaiseStmt(m, v.items[1])
    ELSE Raise(m, Exc("TypeError", Str("exceptions must derive from BaseException")))

\* a new Deferred that has not fired; owner tells who fires it
NewDeferred(owner, n) ==
    [called |-> FALSE, result |-> None, callbacks |-> <<>>, paused |-> 0,
     owner |-> owner, resultList |-> [i \in 1..n |-> None], finishedCount |-> 0]

(***************************************************************************)
(* The functions the environment supplies: handler-table entries, the      *)
(* perform_effect methods of intents, and continuation callbacks.          *)
(***************************************************************************)
\* the number of positional arguments each function accepts
Arity(fn) ==
    CASE fn \in {"h_one", "h_five", "h_boom", "h_nest", "h_defer"} -> 2
      [] OTHER -> 1

\* the Effect the nesting handler and callbacks return
InnerEffect == on_success(Effect(Intent("Ok")), Fn("inc"))

\* sites of calls, kept with each logged call: the perform it belongs to,
\* the position in that Effect's chain, the side chosen, and who called
Site(pid, pos, side, via) == [pid |-> pid, pos |-> pos, side |-> side, via |-> via]
NoSite == Site(0, 0, "none", "none")
Pending == [t |-> "pending"]

\* F applied to the value of x, which is evaluated once
Let(x, F(_)) == CHOOSE y \in {F(v) : v \in {x}} : TRUE

RECURSIVE perform(_, _, _)
RECURSIVE _maybe_chain(_, _, _)
RECURSIVE WalkFrom(_, _, _, _, _, _, _, _)
RECURSIVE Call(_, _, _)
RECURSIVE perform_effect(_, _, _)
RECURSIVE StartChildren(_, _, _, _)
RECURSIVE _runCallbacks(_, _)
RECURSIVE CallDeferredFn(_, _, _, _)
RECURSIVE _cbDeferred(_, _, _, _, _)
RECURSIVE AttachChildren(_, _, _, _)
RECURSIVE _chain_deferred_from(_, _, _, _, _)
RECURSIVE AfterCallback(_, _)
RECURSIVE AfterStep(_, _, _, _, _, _, _)

\* f(*args) for a callable of the environment
Call(f, args, m) ==
    IF Len(args) # Arity(f.fn)
    THEN Raise(m, Exc("TypeError", Str("wrong number of positional arguments")))
    ELSE CASE f.fn = "h_one" -> Return(m, PyInt(1))
           [] f.fn = "h_unary" -> Return(m, PyInt(1))
           [] f.fn = "h_five" -> Return(m, PyInt(5))
           [] f.fn = "h_boom" -> Raise(m, Exc("Boom", None))
           [] f.fn = "h_nest" -> Return(m, InnerEffect)
           [] f.fn \in {"h_defer", "defer"} ->
                Return([m EXCEPT !.defs = Append(@, NewDeferred("env", 0))],
                       DeferredRef(Len(m.defs) + 1))
           [] f.fn = "perform_effect" ->
                CASE f.self.type = "Self" -> Return(m, PyInt(7))
                  [] f.self.type = "Both" -> Return(m, PyInt(6))
                  [] OTHER -> perform_effect(f.self, args[1].table, m)
           [] f.fn = "inc" ->
                IF args[1].t = "int"
                THEN Return(m, PyInt(args[1].v + 1))
                ELSE Raise(m, Exc("TypeError", Str("unsupported operand")))
           [] f.fn = "recover" -> Return(m, PyInt(0))
           [] f.fn = "echo" -> Return(m, args[1])
           [] f.fn = "crash" -> Raise(m, Exc("Crash", None))
           [] f.fn = "nest" -> Return(m, InnerEffect)
           [] f.fn = "nestDeep" -> Return(m, on_success(Effect(Intent("Nest")), Fn("inc")))
           [] f.fn = "nestBad" -> Return(m, Effect(Intent("Bad")))
           [] f.fn = "nestNone" -> Return(m, Effect(Intent("Unknown")))
           [] OTHER -> Raise(m, Exc("TypeError", Str("object is not callable")))

\* a call of the environment's callable f, entered in the log when it starts
\* and completed with its outcome when it returns
Invoke(f, args, site, m) ==
    LET k == Len(m.log) + 1
        entry == [fn |-> f.fn, self |-> f.self, args |-> f.bound \o args,
                  site |-> site, exc |-> FALSE, ret |-> Pending]
    IN  Let(Call(f, f.bound \o args, [m EXCEPT !.log = Append(@, entry)]),
            LAMBDA r : [r EXCEPT !.m.log[k].exc = r.exc, !.m.log[k].ret = r.val])

(***************************************************************************)
(* The Deferred contract (twisted.internet.defer).                         *)
(***************************************************************************)
passthru == Fn("passthru")

\* Deferred.addCallbacks(callback, errback): append the pair and, when the
\* Deferred has already fired, run it at once
addCallbacks(d, callback, errback, site, m) ==
    LET item == [cb |-> callback,
                 eb |-> IF IsNone(errback) THEN passthru ELSE errback,
                 site |-> site]
    IN  _runCallbacks(d, [m EXCEPT !.defs[d].callbacks = Append(@, item)])

\* Deferred.addCallback(callback)
addCallback(d, callback, m) == addCallbacks(d, callback, NoCb, NoSite, m)

\* Deferred.callback(result) and Deferred.errback(fail)
callback(d, result, m) ==
    _runCallbacks(d, [m EXCEPT !.defs[d].called = TRUE, !.defs[d].result = result])

\* one function of a Deferred's callback list applied to its current result
CallDeferredFn(f, result, site, m) ==
    CASE f.fn = "passthru" -> Return(m, result)
      [] f.fn = "identity" -> Return(m, result)
      [] f.fn = "_maybe_chain" -> _maybe_chain(result, f.bound[1].table, m)
      [] f.fn = "_cbDeferred" ->
           _cbDeferred(f.self.id, result, f.bound[1].v, f.bound[2].v = 1, m)
      [] f.fn = "_parseDListResult" ->
           Return(m, List([i \in 1..Len(result.items) |-> result.items[i].items[2]]))
      [] OTHER -> Invoke(f, <<result>>, site, m)

\* what Deferred._runCallbacks does with the outcome r of one callback of d:
\* a raised exception becomes a Failure, a returned Deferred is waited for
\* (or its result taken, when it has one), anything else is the new result
AfterCallback(d, r) ==
    LET res == IF r.exc THEN Failure(r.val) ELSE r.val
    IN  IF IsDeferred(res)
        THEN LET D2 == r.m.defs[res.id] IN
             IF ~D2.called \/ IsDeferred(D2.result) \/ D2.paused > 0
             THEN LET cont == partial(Fn("_CONTINUE"), DeferredRef(d))
                      wait == [cb |-> cont, eb |-> cont, site |-> NoSite]
                  IN  [r.m EXCEPT !.defs[d].result = res,
                                  !.defs[d].paused = @ + 1,
                                  !.defs[res.id].callbacks = Append(@, wait)]
             ELSE _runCallbacks(d, [r.m EXCEPT !.defs[d].result = D2.result,
                                               !.defs[res.id].result = None])
        ELSE _runCallbacks(d, [r.m EXCEPT !.defs[d].result = res])

\* Deferred._runCallbacks: run the pairs in order while the Deferred has a
\* result and is not paused
_runCallbacks(d, m0) ==
    Let(m0, LAMBDA m :
        LET D == m.defs[d] IN
        IF ~D.called \/ D.paused > 0 \/ D.callbacks = <<>>
        THEN m
        ELSE LET item == Head(D.callbacks)
                 m1 == [m EXCEPT !.defs[d].callbacks = Tail(@)]
                 f == IF IsFailure(D.result) THEN item.eb ELSE item.cb
                 side == IF IsFailure(D.result) THEN "error" ELSE "success"
             IN  IF f.fn = "_CONTINUE"
                 THEN LET chainee == f.bound[1].id
                          m2 == [m1 EXCEPT !.defs[chainee].result = D.result,
                                           !.defs[chainee].paused = @ - 1,
                                           !.defs[d].result = None]
                      IN  _runCallbacks(d, _runCallbacks(chainee, m2))
                 ELSE Let(CallDeferredFn(f, D.result,
                                         [item.site EXCEPT !.side = side], m1),
                          LAMBDA r : AfterCallback(d, r)))

\* defer.maybeDeferred(f, *args) given the outcome r0 of the call f(*args)
maybeDeferred(r0) ==
    Let(r0, LAMBDA r :
        IF ~r.exc /\ IsDeferred(r.val)
        THEN r
        ELSE LET d == Len(r.m.defs) + 1
                 res == IF r.exc THEN Failure(r.val) ELSE r.val
                 done == [NewDeferred("maybeDeferred", 0) EXCEPT !.called = TRUE,
                                                                 !.result = res]
             IN  Return([r.m EXCEPT !.defs = Append(@, done)], DeferredRef(d)))

\* DeferredList._cbDeferred(result, index, succeeded) of the DeferredList dl,
\* created with fireOnOneErrback=True and consumeErrors=False
_cbDeferred(dl, result, index, succeeded, m) ==
    LET m1 == [m EXCEPT !.defs[dl].resultList[index + 1] =
                             Tuple(<<PyInt(IF succeeded THEN 1 ELSE 0), result>>),
                        !.defs[dl].finishedCount = @ + 1]
        DL == m1.defs[dl]
    IN  Return(IF DL.called
               THEN m1
               ELSE IF ~succeeded
               THEN callback(dl, Failure(Exc("FirstError", result)), m1)
               ELSE IF DL.finishedCount = Len(DL.resultList)
               THEN callback(dl, List(DL.resultList), m1)
               ELSE m1,
               result)

\* the loop of DeferredList.__init__ over deferredList, from the 0-based index
AttachChildren(dl, deferredList, index, m) ==
    IF index >= Len(deferredList)
    THEN m
    ELSE LET cb == [fn |-> "_cbDeferred", bound |-> <<PyInt(index), PyInt(1)>>,
                    self |-> DeferredRef(dl)]
             eb == [cb EXCEPT !.bound = <<PyInt(index), PyInt(0)>>]
         IN  AttachChildren(dl, deferredList, index + 1,
                 addCallbacks(deferredList[index + 1].id, cb, eb, NoSite, m))

\* defer.gatherResults(deferredList)
gatherResults(deferredList, m) ==
    LET dl == Len(m.defs) + 1
        n == Len(deferredList)
        m1 == [m EXCEPT !.defs = Append(@, NewDeferred("DeferredList", n))]
    IN  Return(addCallback(dl, Fn("_parseDListResult"),
                   AttachChildren(dl, deferredList, 0,
                       IF n = 0 THEN callback(dl, List(<<>>), m1) ELSE m1)),
               DeferredRef(dl))

(***************************************************************************)
(* Effect.perform and the chain walker.                                    *)
(***************************************************************************)
\* Effect._dispatch_callback reporting a raised fault without the error flag
_dispatch_callback_FlagNotSet(cb, argument, site, m) ==
    Let(Invoke(cb, <<argument>>, site, m),
        LAMBDA r : IF r.exc
                   THEN [m |-> r.m, is_error |-> FALSE, result |-> ExcInfo(r.val)]
                   ELSE [m |-> r.m, is_error |-> FALSE, result |-> r.val])

\* Effect._dispatch_callback: (is_error, result) of callback(argument)
_dispatch_callback(cb, argument, site, m) ==
    Let(Invoke(cb, <<argument>>, site, m),
        LAMBDA r : IF r.exc
                   THEN [m |-> r.m, is_error |-> TRUE, result |-> ExcInfo(r.val)]
                   ELSE [m |-> r.m, is_error |-> FALSE, result |-> r.val])

\* Effect._maybe_chain leaving a Deferred as it is
_maybe_chain_DeferredUnchecked(result, h, m) ==
    IF IsDeferred(result)
    THEN Return(m, result)
    ELSE IF IsEffect(result)
    THEN perform(result, h, m)
    ELSE Return(m, result)

\* Effect._maybe_chain without the perform of a returned Effect
_maybe_chain_NoPerform(result, h, m) ==
    IF IsDeferred(result)
    THEN Return(addCallback(result.id, partial(Fn("_maybe_chain"), HandlersVal(h)), m),
                result)
    ELSE Return(m, result)

\* Effect._maybe_chain
_maybe_chain(result, h, m) ==
    IF IsDeferred(result)
    THEN Return(addCallback(result.id, partial(Fn("_maybe_chain"), HandlersVal(h)), m),
                result)
    ELSE IF IsEffect(result)
    THEN perform(result, h, m)
    ELSE Return(m, result)

\* the loop of Effect._chain_deferred taking the pairs last first
_chain_deferred_from_Reversed(deferred, callbacks, j, ghost, m) ==
    IF j > Len(callbacks)
    THEN Return(m, deferred)
    ELSE LET i == Len(callbacks) + 1 - j
             cb == IF IsNone(callbacks[i].success)
                   THEN Fn("identity")
                   ELSE callbacks[i].success
             site == Site(ghost.pid, ghost.base + i, "deferred", "deferred")
         IN  _chain_deferred_from(deferred, callbacks, j + 1, ghost,
                 addCallbacks(deferred.id, cb, callbacks[i].error, site, m))

\* the loop of Effect._chain_deferred over callbacks, from the 1-based index j;
\* ghost.base is the chain position of the pair before callbacks[1]
_chain_deferred_from(deferred, callbacks, j, ghost, m) ==
    IF j > Len(callbacks)
    THEN Return(m, deferred)
    ELSE LET cb == IF IsNone(callbacks[j].success)
                   THEN Fn("identity")
                   ELSE callbacks[j].success
             site == Site(ghost.pid, ghost.base + j, "deferred", "deferred")
         IN  _chain_deferred_from(deferred, callbacks, j + 1, ghost,
                 addCallbacks(deferred.id, cb, callbacks[j].error, site, m))

\* Effect._chain_deferred attaching the success sides only
_chain_deferred_NoErrbacks(deferred, callbacks, ghost, m) ==
    _chain_deferred_from(deferred,
        [j \in 1..Len(callbacks) |-> [callbacks[j] EXCEPT !.error = NoCb]],
        1, ghost, m)

\* Effect._chain_deferred
_chain_deferred(deferred, callbacks, ghost, m) ==
    _chain_deferred_from(deferred, callbacks, 1, ghost, m)

\* the end of the walk without the return of the result
ChainEnd_ReturnsNone(is_error, result, m) ==
    IF is_error
    THEN RaiseStmt(m, Tuple(SliceFrom(result.items, 1)))
    ELSE Return(m, None)

\* the statements that end Effect._dispatch_callback_chain after its loop
ChainEnd(is_error, result, m) ==
    IF is_error
    THEN RaiseStmt(m, Tuple(SliceFrom(result.items, 1)))
    ELSE Return(m, result)

\* the selection ignoring the error flag
SelectCallback_AlwaysSuccess(pair, is_error) == pair.success

\* cb = success if not is_error else error
SelectCallback(pair, is_error) ==
    IF ~is_error THEN pair.success ELSE pair.error

\* [(init_func, None)] + self.callbacks
Steps(self, init_func) ==
    <<[success |-> init_func, error |-> NoCb]>> \o self.callbacks

\* the slice leaving out the first pair that was not run
Remaining_SkipsOne(self, callback_index) ==
    SliceFrom(self.callbacks, callback_index + 1)

\* the whole list instead of the slice
Remaining_All(self, callback_index) == self.callbacks

\* self.callbacks[callback_index:]
Remaining(self, callback_index) == SliceFrom(self.callbacks, callback_index)

\* the rest of one iteration of the loop of Effect._dispatch_callback_chain,
\* after the callback was dispatched with the outcome r and _maybe_chain gave c
AfterStep(self, steps, callback_index, r, c, h, pid) ==
    IF c.exc
    THEN c
    ELSE IF IsDeferred(c.val)
    THEN _chain_deferred(c.val, Remaining(self, callback_index),
                         [pid |-> pid, base |-> callback_index], c.m)
    ELSE WalkFrom(self, steps, callback_index + 1, r.is_error, c.val, h, pid, c.m)

\* the loop of Effect._dispatch_callback_chain from callback_index on, over
\* steps = [(init_func, None)] + self.callbacks
WalkFrom(self, steps, callback_index, is_error, result, h, pid, m) ==
    IF callback_index >= Len(steps)
    THEN ChainEnd(is_error, result, m)
    ELSE LET cb == SelectCallback(steps[callback_index + 1], is_error)
             site == Site(pid, callback_index,
                          IF is_error THEN "error" ELSE "success", "walk")
         IN  IF IsNone(cb)
             THEN WalkFrom(self, steps, callback_index + 1, is_error, result, h, pid, m)
             ELSE Let(_dispatch_callback(cb, result, site, m), LAMBDA r :
                      Let(_maybe_chain(r.result, h, r.m), LAMBDA c :
                          AfterStep(self, steps, callback_index, r, c, h, pid)))

\* the walk started with None instead of the handler table
_dispatch_callback_chain_NoArgument(self, init_func, h, pid, m) ==
    WalkFrom(self, Steps(self, init_func), 0, FALSE, None, h, pid, m)

\* Effect._dispatch_callback_chain
_dispatch_callback_chain(self, init_func, h, pid, m) ==
    WalkFrom(self, Steps(self, init_func), 0, FALSE, HandlersVal(h), h, pid, m)

\* the resolution trying the intent's own perform_effect first
ResolveHandler_IntrinsicFirst(self, h) ==
    IF HasPerformEffect(self.intent)
    THEN BoundMethod(self.intent, "perform_effect")
    ELSE IF self.intent.type \in DOMAIN h
    THEN partial(Fn(h[self.intent.type]), self.intent)
    ELSE NoCb

\* the handler resolution of Effect.perform: the callable, or NoCb for None
ResolveHandler(self, h) ==
    IF self.intent.type \in DOMAIN h
    THEN partial(Fn(h[self.intent.type]), self.intent)
    ELSE IF HasPerformEffect(self.intent)
    THEN BoundMethod(self.intent, "perform_effect")
    ELSE NoCb

\* Effect.perform returning None when no handler is found
perform_ReturnsNone(self, h, m0) ==
    Let(m0, LAMBDA m :
        LET pid == Len(m.perfs) + 1
            entry == [self |-> self, h |-> h, parent |-> Len(m.log),
                      exc |-> FALSE, val |-> Pending]
            m1 == [m EXCEPT !.perfs = Append(@, entry)]
            func == IF self.intent.type \in DOMAIN h
                    THEN partial(Fn(h[self.intent.type]), self.intent)
                    ELSE IF HasPerformEffect(self.intent)
                    THEN BoundMethod(self.intent, "perform_effect")
                    ELSE NoCb
        IN  Let(IF IsNone(func)
                THEN Return(m1, None)
                ELSE _dispatch_callback_chain(self, func, h, pid, m1),
                LAMBDA r : [r EXCEPT !.m.perfs[pid].exc = r.exc,
                                     !.m.perfs[pid].val = r.val]))

\* Effect.perform; the perform is entered in perfs when it starts, with the
\* number of calls logged before it, and completed with its outcome
perform(self, h, m0) ==
    Let(m0, LAMBDA m :
        LET pid == Len(m.perfs) + 1
            entry == [self |-> self, h |-> h, parent |-> Len(m.log),
                      exc |-> FALSE, val |-> Pending]
            m1 == [m EXCEPT !.perfs = Append(@, entry)]
            func == ResolveHandler(self, h)
        IN  Let(IF IsNone(func)
                THEN Raise(m1, Exc("NoEffectHandlerError", self.intent))
                ELSE _dispatch_callback_chain(self, func, h, pid, m1),
                LAMBDA r : [r EXCEPT !.m.perfs[pid].exc = r.exc,
                                     !.m.perfs[pid].val = r.val]))

(***************************************************************************)
(* ParallelEffects.perform_effect                                          *)
(***************************************************************************)
\* the fan-out ending at the first child whose perform raises
StartChildren_StopAtFault(effects, i, h, acc) ==
    IF i > Len(effects)
    THEN acc
    ELSE Let(perform(effects[i], h, acc.m), LAMBDA p :
             Let(maybeDeferred(p), LAMBDA r :
                 IF p.exc
                 THEN [m |-> r.m, done |-> Append(acc.done, r.val)]
                 ELSE StartChildren(effects, i + 1, h,
                                    [m |-> r.m, done |-> Append(acc.done, r.val)])))

\* the children's Deferreds collected last first
StartChildren_Reversed(effects, i, h, acc) ==
    IF i > Len(effects)
    THEN acc
    ELSE Let(maybeDeferred(perform(effects[i], h, acc.m)), LAMBDA r :
             StartChildren(effects, i + 1, h,
                           [m |-> r.m, done |-> <<r.val>> \o acc.done]))

\* [maybeDeferred(e.perform, handlers) for e in self.effects], from the
\* 1-based index i on; acc.done holds the Deferreds made so far
StartChildren(effects, i, h, acc) ==
    IF i > Len(effects)
    THEN acc
    ELSE Let(maybeDeferred(perform(effects[i], h, acc.m)), LAMBDA r :
             StartChildren(effects, i + 1, h,
                           [m |-> r.m, done |-> Append(acc.done, r.val)]))

perform_effect(self, h, m) ==
    Let(StartChildren(self.effects, 1, h, [m |-> m, done |-> <<>>]), LAMBDA started :
        gatherResults(started.done, started.m))

(***************************************************************************)
(* The state machine: Effects are built with on(), one of them is          *)
(* performed against a handler table, and the Deferreds that handlers and  *)
(* callbacks returned are fired by the environment.                        *)
(***************************************************************************)
\* handler tables a caller may pass to perform
FullTable ==
    [Ok |-> "h_one", Bad |-> "h_boom", Both |-> "h_five", Nest |-> "h_nest",
     Async |-> "h_defer", Unary |-> "h_unary"]
SmallTable == [Ok |-> "h_one", Bad |-> "h_boom"]
EmptyTable == [x \in {} |-> "h_one"]

NotPerformed == [t |-> "none"]
Returned(v) == [t |-> "returned", val |-> v]
Raised(e) == [t |-> "raised", val |-> e]

InitWith(effects) ==
    /\ effs \in {<<e>> : e \in effects}
    /\ built = <<<<>>>>
    /\ performed = 0
    /\ handlers = EmptyTable
    /\ defs = <<>>
    /\ fired = <<>>
    /\ log = <<>>
    /\ perfs = <<>>
    /\ outcome = NotPerformed
    /\ python \in PythonVersions

\* effs[r].on(success, error)
On(r, success, error) ==
    /\ outcome = NotPerformed
    /\ Len(effs[r].callbacks) < MaxChain
    /\ effs' = Append(effs, on(effs[r], success, error))
    /\ built' = Append(built, Append(built[r], [success |-> success, error |-> error]))
    /\ UNCHANGED <<performed, handlers, defs, fired, log, perfs, outcome, python>>

\* effs[r].perform(h), from the call to its return or raise
Perform(r, h) ==
    /\ outcome = NotPerformed
    /\ \E res \in {perform(effs[r], h, Machine(defs, log, perfs))} :
           /\ defs' = res.m.defs
           /\ log' = res.m.log
           /\ perfs' = res.m.perfs
           /\ outcome' = IF res.exc THEN Raised(res.val) ELSE Returned(res.val)
    /\ handlers' = h
    /\ performed' = r
    /\ UNCHANGED <<effs, built, fired, python>>

\* the environment fires the Deferred d it handed out: d.callback(v), or
\* d.errback(v) when v is a Failure
Fire(d, v) ==
    /\ defs[d].owner = "env"
    /\ ~defs[d].called
    /\ \E m \in {callback(d, v, Machine(defs, log, perfs))} :
           /\ defs' = m.defs
           /\ log' = m.log
           /\ perfs' = m.perfs
    /\ fired' = Append(fired, [d |-> d, v |-> v])
    /\ UNCHANGED <<effs, built, performed, handlers, outcome, python>>

\* effs[r].on(success, error) on any Effect made so far, before or after a
\* perform
OnAny(r, success, error) ==
    /\ Len(effs) < MaxEffects
    /\ Len(effs[r].callbacks) < MaxChain
    /\ effs' = on_objects(effs, r, success, error)
    /\ built' = Append(built, Append(built[r], [success |-> success, error |-> error]))
    /\ UNCHANGED <<performed, handlers, defs, fired, log, perfs, outcome, python>>

\* effs[r].perform(h) on any Effect made so far, performed before or not
PerformAny(r, h) ==
    /\ Len(perfs) < MaxPerforms
    /\ \E res \in {perform(effs[r], h, Machine(defs, log, perfs))} :
           /\ defs' = res.m.defs
           /\ log' = res.m.log
           /\ perfs' = res.m.perfs
           /\ outcome' = IF res.exc THEN Raised(res.val) ELSE Returned(res.val)
    /\ handlers' = h
    /\ performed' = r
    /\ UNCHANGED <<effs, built, fired, python>>

\* the synchronous engine: plain intents, callbacks that return or raise
SyncIntents == {"Ok", "Bad", "Self", "Both", "Unary", "Unknown"}
SyncSuccess == {Fn("inc"), Fn("crash"), NoCb}
SyncError == {Fn("recover"), Fn("crash"), NoCb}

Init == InitWith({Effect(Intent(i)) : i \in SyncIntents})

Next ==
    \/ \E s \in SyncSuccess, e \in SyncError : On(Len(effs), s, e)
    \/ \E h \in {FullTable, SmallTable} : Perform(Len(effs), h)

Spec == Init /\ [][Next]_vars

\* nested Effects: handlers and callbacks that return Effects
NestIntents == {"Ok", "Nest", "Bad"}
NestSuccess == {Fn("inc"), Fn("nest"), Fn("nestDeep"), Fn("nestBad"), NoCb}
NestError == {Fn("nest"), NoCb}

InitNest == InitWith({Effect(Intent(i)) : i \in NestIntents})

NextNest ==
    \/ \E s \in NestSuccess, e \in NestError : On(Len(effs), s, e)
    \/ Perform(Len(effs), FullTable)

SpecNest == InitNest /\ [][NextNest]_vars

\* parallel(): children that complete at once or when their Deferred fires
ParChildren ==
    {Effect(Intent("Ok")), Effect(Intent("Async")),
     on_success(Effect(Intent("Async")), Fn("inc")), Effect(Intent("Bad"))}
ChildLists == UNION {[1..n -> ParChildren] : n \in 0..MaxChildren}
FireValues == {PyInt(1), PyInt(2), Failure(Exc("Boom", None))}

InitPar == InitWith({parallel(c) : c \in ChildLists})

NextPar ==
    \/ Perform(1, FullTable)
    \/ \E d \in 1..Len(defs), v \in FireValues : Fire(d, v)

SpecPar == InitPar /\ [][NextPar]_vars

\* parallel() with children that fail at once, and continuations attached
\* to the parallel Effect
FanChildren ==
    {Effect(Intent("Ok")), Effect(Intent("Async")), Effect(Intent("Bad")),
     on_success(Effect(Intent("Ok")), Fn("crash")), Effect(Intent("Unknown"))}
FanLists == UNION {[1..n -> FanChildren] : n \in 0..MaxChildren}
FanSuccess == {Fn("echo"), NoCb}
FanError == {Fn("recover"), NoCb}
FanFireValues == {PyInt(1), Failure(Exc("Boom", None))}

InitFan == InitWith({parallel(c) : c \in FanLists})

NextFan ==
    \/ \E s \in FanSuccess, e \in FanError : On(Len(effs), s, e)
    \/ Perform(Len(effs), FullTable)
    \/ \E d \in 1..Len(defs), v \in FanFireValues : Fire(d, v)

SpecFan == InitFan /\ [][NextFan]_vars

\* the handoff to a Deferred: a handler or a callback returns a Deferred that
\* the environment fires later with a value or a failure
AsyncIntents == {"Ok", "Async", "Bad"}
AsyncSuccess == {Fn("inc"), Fn("defer"), Fn("crash"), NoCb}
AsyncError == {Fn("recover"), Fn("echo"), NoCb}
AsyncFireValues == {PyInt(1), Failure(Exc("Boom", None))}

InitAsync == InitWith({Effect(Intent(i)) : i \in AsyncIntents})

NextAsync ==
    \/ \E s \in AsyncSuccess, e \in AsyncError : On(Len(effs), s, e)
    \/ Perform(Len(effs), FullTable)
    \/ \E d \in 1..Len(defs), v \in AsyncFireValues : Fire(d, v)

SpecAsync == InitAsync /\ [][NextAsync]_vars

\* Effects that another Effect's chain has to resolve: callbacks return
\* Effects or Deferreds, Deferreds are fired with Effects, and some of these
\* Effects have an intent no handler is found for, alone or next to another
\* child of a ParallelEffects
ResolveRoots ==
    {Effect(Intent("Ok")), Effect(Intent("Async")), Effect(Intent("Unknown")),
     parallel(<<Effect(Intent("Unknown"))>>),
     parallel(<<Effect(Intent("Bad")), Effect(Intent("Unknown"))>>),
     parallel(<<Effect(Intent("Unknown")), Effect(Intent("Bad"))>>),
     parallel(<<Effect(Intent("Async")), Effect(Intent("Bad"))>>)}
ResolveSuccess == {Fn("inc"), Fn("defer"), Fn("nest"), Fn("nestNone"), NoCb}
ResolveError == {Fn("recover"), NoCb}
ResolveFireValues == {PyInt(1), InnerEffect, Effect(Intent("Unknown"))}

InitResolve == InitWith(ResolveRoots)

NextResolve ==
    \/ \E s \in ResolveSuccess, e \in ResolveError : On(Len(effs), s, e)
    \/ Perform(Len(effs), FullTable)
    \/ \E d \in 1..Len(defs), v \in ResolveFireValues : Fire(d, v)
    \/ \E d \in 1..Len(defs) : Len(defs) < MaxDefs /\ Fire(d, Effect(Intent("Async")))

SpecResolve == InitResolve /\ [][NextResolve]_vars

\* Effects that share a root: on_success, on_error, after and on applied to
\* any of them, and performs of any of them, in any order
FrameIntents == {"Ok", "Bad", "Async"}
FramePairs ==
    {on_success(Effect(None), Fn("inc")).callbacks[1],
     on_error(Effect(None), Fn("recover")).callbacks[1],
     after(Effect(None), Fn("crash")).callbacks[1],
     on(Effect(None), Fn("inc"), Fn("recover")).callbacks[1]}

InitFrame == InitWith({Effect(Intent(i)) : i \in FrameIntents})

NextFrame ==
    \/ \E r \in 1..Len(effs), pair \in FramePairs : OnAny(r, pair.success, pair.error)
    \/ \E r \in 1..Len(effs) : PerformAny(r, FullTable)

SpecFrame == InitFrame /\ [][NextFrame]_vars

(***************************************************************************)
(* Vocabulary of the properties.                                           *)
(***************************************************************************)
Performed == outcome # NotPerformed
\* the Effect given to the top-level perform, and the pairs attached to it,
\* in the order of the on() calls that attached them
Top == perfs[1].self
Chain == built[performed]
TopLen == Len(Chain)
\* the calls the top-level perform made for its own chain, in order
TopCalls == SelectSeq(log, LAMBDA c : c.site.pid = 1)
SideOf(pair, side) == IF side = "success" THEN pair.success ELSE pair.error
HasSide(i, side) == ~IsNone(SideOf(Chain[i], side))
\* the nearest position after k whose pair has the given side, or 0
NextWith(k, side) ==
    LET S == {i \in (k + 1)..TopLen : HasSide(i, side)}
    IN  IF S = {} THEN 0 ELSE CHOOSE i \in S : \A j \in S : i <= j
\* a value that is neither an Effect nor a Deferred
IsPlain(v) == ~IsEffect(v) /\ ~IsDeferred(v)
\* what a step hands to the next one: its return value, or the captured fault
Handed(c) == IF c.exc THEN ExcInfo(c.ret) ELSE c.ret
IsTableCall(c) == c.site.pos = 0 /\ c.self = None
IsIntrinsicCall(c) == c.site.pos = 0 /\ c.self # None

(***************************************************************************)
(* Properties of the synchronous chain walk.                               *)
(***************************************************************************)
\* C1: when the handler and every success-side callback that runs return
\* plain values, the calls of a perform are the handler followed by every
\* non-absent success-side callback, once each, in attachment order, each
\* given the previous call's return value; no error-side callback is called.
C1_SuccessChainInOrder ==
    (/\ Performed
     /\ ~IsNone(ResolveHandler(Top, handlers))
     /\ \A k \in 1..Len(TopCalls) :
           TopCalls[k].site.side = "success" =>
               ~TopCalls[k].exc /\ IsPlain(TopCalls[k].ret))
    => LET want == SelectSeq([i \in 1..TopLen |-> i], LAMBDA i : HasSide(i, "success"))
       IN  /\ Len(TopCalls) = 1 + Len(want)
           /\ TopCalls[1].site.pos = 0
           /\ \A j \in 1..Len(want) :
                 LET c == TopCalls[j + 1]
                 IN  /\ c.site = Site(1, want[j], "success", "walk")
                     /\ c.fn = Chain[want[j]].success.fn
                     /\ c.args = <<TopCalls[j].ret>>
           /\ outcome = Returned(TopCalls[Len(TopCalls)].ret)

C1_Witness ==
    /\ Performed
    /\ TopLen = 3
    /\ Len(TopCalls) = 3
    /\ \A k \in 1..3 : ~TopCalls[k].exc /\ TopCalls[k].site.side = "success"
    /\ \E i \in 1..3 : HasSide(i, "error")
    /\ outcome = Returned(PyInt(3))

\* C2: when the step at position k raises during the walk, nothing is called
\* at the positions between k and the nearest later pair with an error-side
\* callback, and that error-side callback is called exactly once, with the
\* fault captured at step k.
C2_FaultRoutedToNearestErrorSide ==
    \A k \in 1..Len(TopCalls) :
        LET c == TopCalls[k]
            j == NextWith(c.site.pos, "error")
            upto == IF j = 0 THEN TopLen + 1 ELSE j
        IN  (c.exc /\ c.site.via = "walk") =>
            /\ \A x \in 1..Len(TopCalls) :
                  ~(TopCalls[x].site.pos > c.site.pos /\ TopCalls[x].site.pos < upto)
            /\ j # 0 =>
                  /\ Cardinality({x \in 1..Len(TopCalls) : TopCalls[x].site.pos = j}) = 1
                  /\ \A x \in 1..Len(TopCalls) :
                        TopCalls[x].site.pos = j =>
                            /\ TopCalls[x].site.side = "error"
                            /\ TopCalls[x].fn = Chain[j].error.fn
                            /\ TopCalls[x].args = <<ExcInfo(c.ret)>>

C2_Witness ==
    /\ Performed
    /\ TopLen = 3
    /\ Len(TopCalls) = 3
    /\ TopCalls[2].site.pos = 1 /\ TopCalls[2].exc
    /\ HasSide(2, "success") /\ ~HasSide(2, "error")
    /\ TopCalls[3].site = Site(1, 3, "error", "walk")
    /\ TopCalls[3].args = <<ExcInfo(Exc("Crash", None))>>

\* C3: the side a pair runs is decided by the outcome of the call made last
\* before it: after a call returns, the next call is the nearest later
\* success-side callback, given the returned value; after a call raises, it
\* is the nearest later error-side callback, given the fault just captured.
C3_SideFollowsLastOutcome ==
    \A k \in 1..Len(TopCalls) :
        LET a == TopCalls[k]
            side == IF a.exc THEN "error" ELSE "success"
            j == NextWith(a.site.pos, side)
        IN  IF j = 0
            THEN k = Len(TopCalls)
            ELSE /\ k < Len(TopCalls)
                 /\ TopCalls[k + 1].site = Site(1, j, side, "walk")
                 /\ TopCalls[k + 1].fn = SideOf(Chain[j], side).fn
                 /\ TopCalls[k + 1].args = <<Handed(a)>>

C3_Witness ==
    /\ Performed
    /\ Len(TopCalls) = 4
    /\ TopCalls[1].exc /\ TopCalls[1].ret = Exc("Boom", None)
    /\ TopCalls[2].site.side = "error" /\ TopCalls[2].exc
    /\ TopCalls[3].site.side = "error" /\ ~TopCalls[3].exc
    /\ TopCalls[3].args = <<ExcInfo(Exc("Crash", None))>>
    /\ TopCalls[4].site.side = "success"
    /\ TopCalls[4].args = <<TopCalls[3].ret>>

\* C5: when the walk ends with the error flag set, that is when the call
\* made last raised, perform raises the very exception that call raised.
C5_RaisesCapturedFault ==
    (Performed /\ TopCalls # <<>> /\ TopCalls[Len(TopCalls)].exc)
    => outcome = Raised(TopCalls[Len(TopCalls)].ret)

(***************************************************************************)
(* Properties of handler resolution.                                       *)
(***************************************************************************)
\* C6: when the intent's type is a key of the handler table, perform calls
\* that table entry exactly once, with the intent, calls no other handler
\* and no perform_effect, and with no continuations returns the plain value
\* the entry returned.
C6_TableEntryCalledOnce ==
    (Performed /\ Top.intent.type \in DOMAIN handlers)
    => LET hs == SelectSeq(log, LAMBDA c : c.site.pos = 0)
       IN  /\ Len(hs) = 1
           /\ IsTableCall(hs[1])
           /\ hs[1].site.pid = 1
           /\ hs[1].fn = handlers[Top.intent.type]
           /\ hs[1].args[1] = Top.intent
           /\ (TopLen = 0 /\ ~hs[1].exc /\ IsPlain(hs[1].ret))
                 => outcome = Returned(hs[1].ret)

C6_Witness ==
    /\ Performed
    /\ Top.intent.type = "Ok"
    /\ handlers = SmallTable
    /\ TopLen = 0
    /\ Len(log) = 1 /\ log[1].fn = "h_one"
    /\ outcome = Returned(PyInt(1))

\* C7 as stated: a handler taken from the table is called with the intent
\* as its only argument.
C7_HandlerCalledWithIntentOnly ==
    \A k \in 1..Len(log) :
        IsTableCall(log[k]) => log[k].args = <<perfs[log[k].site.pid].self.intent>>

\* C7, amended: a handler taken from the table is called with the intent and
\* the handler table, in this order; perform_effect is called on the intent
\* with the handler table alone.
C7_HandlerCalledWithIntentAndTable ==
    \A k \in 1..Len(log) :
        LET c == log[k]
            intent == perfs[c.site.pid].self.intent
        IN  /\ IsTableCall(c) => c.args = <<intent, HandlersVal(handlers)>>
            /\ IsIntrinsicCall(c) => c.self = intent /\ c.args = <<HandlersVal(handlers)>>

C7_Witness ==
    /\ Performed
    /\ Len(log) >= 1
    /\ IsTableCall(log[1])
    /\ log[1].fn = "h_five"
    /\ log[1].args = <<Intent("Both"), HandlersVal(FullTable)>>
    /\ ~log[1].exc

\* C8: when the intent's type is no key of the table and the intent has no
\* perform_effect, perform raises NoEffectHandlerError carrying the intent
\* and calls nothing.
C8_NoHandlerRaises ==
    (/\ Performed
     /\ Top.intent.type \notin DOMAIN handlers
     /\ ~HasPerformEffect(Top.intent))
    => /\ outcome = Raised(Exc("NoEffectHandlerError", Top.intent))
       /\ log = <<>>
       /\ Len(perfs) = 1

C8_Witness ==
    /\ Performed
    /\ Top.intent.type = "Unary"
    /\ handlers = SmallTable
    /\ TopLen = 3
    /\ HasSide(1, "success") /\ HasSide(2, "error")
    /\ outcome = Raised(Exc("NoEffectHandlerError", Intent("Unary")))

\* C9: the table has priority: when the intent's type is a key of the table
\* and the intent has perform_effect, the table entry is called and
\* perform_effect is not; perform_effect is called, with the handler table
\* as its argument, only when the table has no entry for the type.
C9_TableOverridesIntrinsic ==
    Performed =>
    /\ (Top.intent.type \in DOMAIN handlers /\ HasPerformEffect(Top.intent))
          => /\ \E k \in 1..Len(TopCalls) :
                   IsTableCall(TopCalls[k])
                   /\ TopCalls[k].fn = handlers[Top.intent.type]
             /\ \A k \in 1..Len(TopCalls) : ~IsIntrinsicCall(TopCalls[k])
    /\ \A k \in 1..Len(TopCalls) :
          IsIntrinsicCall(TopCalls[k])
          => /\ Top.intent.type \notin DOMAIN handlers
             /\ TopCalls[k].args = <<HandlersVal(handlers)>>

C9_Witness ==
    /\ Performed
    /\ Top.intent.type = "Both"
    /\ handlers = FullTable
    /\ Len(log) = 1
    /\ log[1].fn = "h_five"
    /\ outcome = Returned(PyInt(5))

(***************************************************************************)
(* Nested Effects.                                                         *)
(***************************************************************************)
\* C4: when a call made by the walk returns an Effect, that Effect is
\* performed at once against the table given to the outer perform, its
\* handler receiving that table; all calls of the inner perform come before
\* the outer chain's next call, which receives the inner perform's result,
\* a plain value; and no perform returns an Effect.
C4_NestedEffectResolvedInPlace ==
    /\ \A k \in 1..Len(log) :
          (log[k].site.via = "walk" /\ ~log[k].exc /\ IsEffect(log[k].ret)) =>
          \E p \in 1..Len(perfs) :
              LET c == log[k]
                  later == {x \in (k + 1)..Len(log) : log[x].site.pid = c.site.pid}
              IN  /\ p > c.site.pid
                  /\ perfs[p].parent = k
                  /\ perfs[p].self = c.ret
                  /\ perfs[p].h = handlers
                  /\ c.ret.intent.type \in DOMAIN handlers =>
                        /\ Len(log) > k
                        /\ log[k + 1].site = Site(p, 0, "success", "walk")
                        /\ log[k + 1].fn = handlers[c.ret.intent.type]
                        /\ log[k + 1].args = <<c.ret.intent, HandlersVal(handlers)>>
                  /\ later # {} =>
                        LET x == CHOOSE x \in later : \A y \in later : x <= y
                        IN  /\ ~perfs[p].exc
                            /\ IsPlain(perfs[p].val)
                            /\ log[x].args = <<perfs[p].val>>
                            /\ \A y \in (k + 1)..(x - 1) : log[y].site.pid >= p
                            /\ \A y \in 1..Len(log) :
                                  log[y].site.pid = p => (k < y /\ y < x)
    /\ \A p \in 1..Len(perfs) : ~perfs[p].exc => ~IsEffect(perfs[p].val)

C4_Witness ==
    /\ Performed
    /\ Len(perfs) >= 3
    /\ \E k \in 1..Len(log) :
          /\ log[k].fn = "nestDeep"
          /\ log[k].site.pid = 1
          /\ \E x \in (k + 1)..Len(log) :
                /\ log[x].site.pid = 1
                /\ log[x].fn = "inc"
                /\ log[x].args = <<PyInt(3)>>
    /\ outcome = Returned(PyInt(4))

(***************************************************************************)
(* parallel().                                                             *)
(***************************************************************************)
\* the result a child's perform resolved to: what it returned or, when it
\* returned a Deferred, that Deferred's result
Resolved(p) == IF IsDeferred(p.val) THEN defs[p.val.id].result ELSE p.val

\* C10: performing parallel(effects) returns a Deferred; when it has fired
\* with success, its result is a list as long as effects whose element j is
\* the resolved result of the j-th child, whatever the order of the firings.
C10_ParallelResultsInInputOrder ==
    (Performed /\ Top.intent.type = "ParallelEffects") =>
    /\ outcome.t = "returned"
    /\ IsDeferred(outcome.val)
    /\ LET D == defs[outcome.val.id]
           kids == Top.intent.effects
       IN  (D.called /\ ~IsFailure(D.result)) =>
           /\ D.result.t = "list"
           /\ Len(D.result.items) = Len(kids)
           /\ \A j \in 1..Len(kids) :
                 /\ perfs[j + 1].self = kids[j]
                 /\ D.result.items[j] = Resolved(perfs[j + 1])

C10_Witness ==
    /\ Performed
    /\ Top.intent.effects =
          <<on_success(Effect(Intent("Async")), Fn("inc")),
            on_success(Effect(Intent("Async")), Fn("inc"))>>
    /\ fired = <<[d |-> 2, v |-> PyInt(1)], [d |-> 1, v |-> PyInt(2)]>>
    /\ defs[outcome.val.id].called
    /\ defs[outcome.val.id].result = List(<<PyInt(3), PyInt(2)>>)

(***************************************************************************)
(* The fan-out of ParallelEffects.perform_effect.                          *)
(***************************************************************************)
\* the children of the performed parallel Effect, and the perform of child j
Kids == Top.intent.effects
KidPerf(j) == perfs[j + 1]
\* the failure child j has ended with, or None while it has not failed
KidFailure(j) ==
    LET p == KidPerf(j)
    IN  IF p.exc THEN Failure(p.val)
        ELSE IF IsDeferred(p.val) /\ IsFailure(defs[p.val.id].result)
        THEN defs[p.val.id].result
        ELSE None

\* C11: performing a ParallelEffects starts the perform of every child, in
\* input order and against the table given to the parallel Effect, also
\* after a child whose perform raised; a child's raised fault becomes the
\* failure of a Deferred that has fired, and perform_effect itself returns
\* a Deferred and never raises.
C11_EveryChildStarted ==
    (Performed /\ Top.intent.type = "ParallelEffects") =>
    /\ Len(perfs) = Len(Kids) + 1
    /\ \A j \in 1..Len(Kids) :
          /\ KidPerf(j).self = Kids[j]
          /\ KidPerf(j).h = handlers
          /\ KidPerf(j).exc =>
                \E d \in 1..Len(defs) :
                    /\ defs[d].owner = "maybeDeferred"
                    /\ defs[d].called
                    /\ defs[d].result = Failure(KidPerf(j).val)
    /\ \E k \in 1..Len(log) :
          /\ log[k].site = Site(1, 0, "success", "walk")
          /\ log[k].fn = "perform_effect"
          /\ ~log[k].exc
          /\ IsDeferred(log[k].ret)
    /\ outcome.t = "returned"
    /\ IsDeferred(outcome.val)

C11_Witness ==
    /\ Performed
    /\ Kids = <<Effect(Intent("Unknown")), on_success(Effect(Intent("Ok")), Fn("crash"))>>
    /\ KidPerf(1).exc /\ KidPerf(1).val = Exc("NoEffectHandlerError", Intent("Unknown"))
    /\ KidPerf(2).exc
    /\ \E k \in 1..Len(log) : log[k].fn = "crash" /\ log[k].site.pid = 3

\* C12: once a child of a performed ParallelEffects has failed, at once or
\* when its Deferred was fired with a failure, the aggregate has failed: no
\* success-side continuation of the parallel Effect was given a result
\* list, the nearest error-side continuation was called with the aggregate's
\* failure, which wraps the failure of a child, and with no error-side
\* continuation the returned Deferred has that failure as its result.
C12_ChildFailureFailsAggregate ==
    (/\ Performed /\ Top.intent.type = "ParallelEffects"
     /\ \E j \in 1..Len(Kids) : KidFailure(j) # None)
    => LET j == NextWith(0, "error")
           wraps(v) == /\ IsFailure(v)
                       /\ v.exc.cls = "FirstError"
                       /\ \E i \in 1..Len(Kids) : v.exc.arg = KidFailure(i)
       IN  /\ \A k \in 1..Len(TopCalls) :
                 TopCalls[k].site.pos >= 1 => TopCalls[k].args[1].t # "list"
           /\ IF j = 0
              THEN /\ \A k \in 1..Len(TopCalls) : TopCalls[k].site.pos = 0
                   /\ wraps(defs[outcome.val.id].result)
              ELSE /\ \A k \in 1..Len(TopCalls) : TopCalls[k].site.pos \notin 1..(j - 1)
                   /\ \E k \in 1..Len(TopCalls) :
                         /\ TopCalls[k].site = Site(1, j, "error", "deferred")
                         /\ TopCalls[k].fn = Chain[j].error.fn
                         /\ wraps(TopCalls[k].args[1])

C12_Witness ==
    /\ Performed
    /\ Kids = <<Effect(Intent("Async")), Effect(Intent("Async"))>>
    /\ fired = <<[d |-> 2, v |-> PyInt(1)], [d |-> 1, v |-> Failure(Exc("Boom", None))]>>
    /\ TopLen = 2
    /\ HasSide(1, "success") /\ ~HasSide(1, "error") /\ HasSide(2, "error")
    /\ Len(TopCalls) = 2
    /\ TopCalls[2].site = Site(1, 2, "error", "deferred")
    /\ TopCalls[2].args = <<Failure(Exc("FirstError", Failure(Exc("Boom", None))))>>

(***************************************************************************)
(* Effects are never mutated.                                              *)
(***************************************************************************)
\* the calls perform p made for its own chain, without the perform's number
\* and with a returned Deferred replaced by a mark
Shape(v) == IF IsDeferred(v) THEN [t |-> "a deferred"] ELSE v
CallsOf(p) ==
    LET mine == SelectSeq(log, LAMBDA c : c.site.pid = p)
    IN  [k \in 1..Len(mine) |->
            [fn |-> mine[k].fn, pos |-> mine[k].site.pos, side |-> mine[k].site.side,
             args |-> mine[k].args, exc |-> mine[k].exc, ret |-> Shape(mine[k].ret)]]

\* C13: every Effect made so far has the intent of its root and exactly the
\* pairs it was constructed with, whatever on() and perform calls followed;
\* the perform made last called callbacks of the performed Effect's own
\* list only, each at its own position; and two performs of the same Effect
\* made the same calls with the same arguments and outcomes, the handler
\* included, and ended alike, a Deferred returned by one never being the
\* Deferred returned by the other.
C13_EffectsNeverMutated ==
    /\ \A i \in 1..Len(effs) :
          /\ effs[i].intent = effs[1].intent
          /\ effs[i].callbacks = built[i]
    /\ performed # 0 =>
          /\ perfs[Len(perfs)].self = with_callbacks(effs[1].intent, built[performed])
          /\ \A k \in 1..Len(log) :
                (log[k].site.pid = Len(perfs) /\ log[k].site.pos >= 1) =>
                    /\ log[k].site.pos <= Len(built[performed])
                    /\ log[k].fn =
                          SideOf(built[performed][log[k].site.pos], log[k].site.side).fn
    /\ \A p, q \in 1..Len(perfs) :
          (p < q /\ perfs[p].self = perfs[q].self) =>
              /\ CallsOf(p) = CallsOf(q)
              /\ Len(CallsOf(q)) >= 1
              /\ CallsOf(q)[1].pos = 0
              /\ perfs[p].exc = perfs[q].exc
              /\ Shape(perfs[p].val) = Shape(perfs[q].val)
              /\ IsDeferred(perfs[p].val) => perfs[p].val # perfs[q].val

\* on() made a second Effect from the first and a third from the second,
\* then the second was performed twice
C13_Witness ==
    /\ Len(effs) = 3
    /\ Len(built[2]) = 1 /\ Len(built[3]) = 2
    /\ SubSeq(built[3], 1, 1) = built[2]
    /\ Len(perfs) = 2
    /\ performed = 2
    /\ perfs[1].self = effs[2] /\ perfs[2].self = effs[2]
    /\ Len(log) = 4
    /\ log[2].site = Site(1, 1, "success", "walk")
    /\ log[4].site = Site(2, 1, "success", "walk")

(***************************************************************************)
(* The handoff of the rest of a chain to a Deferred.                       *)
(***************************************************************************)
\* what _chain_deferred attaches for the pair at chain position i
Attached(i) ==
    [cb |-> IF IsNone(Chain[i].success) THEN Fn("identity") ELSE Chain[i].success,
     eb |-> IF IsNone(Chain[i].error) THEN passthru ELSE Chain[i].error,
     site |-> Site(1, i, "deferred", "deferred")]
\* what _maybe_chain attaches to a Deferred
AttachedCheck ==
    [cb |-> partial(Fn("_maybe_chain"), HandlersVal(handlers)), eb |-> passthru,
     site |-> NoSite]

\* C15: when a step of the walk returns a Deferred, the walk makes no
\* further call and perform returns that Deferred; before it is fired its
\* callback list holds, after the check attached by _maybe_chain, exactly
\* the pairs after that step, once each and in attachment order, success
\* side as callback (the identity when absent) and error side as errback,
\* and none of the pairs up to that step.
C15_HandoffAttachesRemainingPairs ==
    \A k \in 1..Len(TopCalls) :
        LET c == TopCalls[k]
            pos == c.site.pos
        IN  (c.site.via = "walk" /\ ~c.exc /\ IsDeferred(c.ret)) =>
            /\ outcome = Returned(c.ret)
            /\ \A x \in 1..Len(TopCalls) : TopCalls[x].site.via = "walk" => x <= k
            /\ fired = <<>> =>
                  /\ k = Len(TopCalls)
                  /\ ~defs[c.ret.id].called
                  /\ defs[c.ret.id].callbacks =
                        <<AttachedCheck>> \o [j \in 1..(TopLen - pos) |-> Attached(pos + j)]

\* a callback in the middle of a chain of three returned the Deferred
C15_Witness ==
    /\ Performed
    /\ fired = <<>>
    /\ TopLen = 3
    /\ Len(TopCalls) = 2
    /\ TopCalls[2].site = Site(1, 1, "success", "walk")
    /\ TopCalls[2].fn = "defer"
    /\ outcome = Returned(DeferredRef(1))
    /\ Len(defs[1].callbacks) = 3
    /\ ~HasSide(2, "success") /\ HasSide(2, "error")
    /\ HasSide(3, "success") /\ ~HasSide(3, "error")

\* the pairs of the Effect of perform p, the calls made for them, and the
\* callbacks of a Deferred that wait for them
PairsOf(p) == perfs[p].self.callbacks
CallsAt(p, i) == {k \in 1..Len(log) : log[k].site.pid = p /\ log[k].site.pos = i}
Waiting(p, i) ==
    {x \in UNION {{<<d, j>> : j \in 1..Len(defs[d].callbacks)} : d \in 1..Len(defs)} :
        /\ defs[x[1]].callbacks[x[2]].site.pid = p
        /\ defs[x[1]].callbacks[x[2]].site.pos = i}

\* C19: within one perform the resolved handler is called exactly once, and
\* every call made for the chain is the call of one side of one of its
\* pairs; a pair has at most one call, so at most one side called and that
\* side once, whether the walk or a Deferred made the call; a pair that was
\* called by the walk is attached to no Deferred, and no pair is attached
\* twice.
C19_EachPairAtMostOnce ==
    \A p \in 1..Len(perfs) :
        /\ ~IsNone(ResolveHandler(perfs[p].self, perfs[p].h)) =>
              Cardinality(CallsAt(p, 0)) = 1
        /\ \A k \in 1..Len(log) :
              (log[k].site.pid = p /\ log[k].site.pos >= 1) =>
                  /\ log[k].site.pos <= Len(PairsOf(p))
                  /\ log[k].site.side \in {"success", "error"}
                  /\ log[k].fn = SideOf(PairsOf(p)[log[k].site.pos], log[k].site.side).fn
        /\ \A i \in 1..Len(PairsOf(p)) :
              /\ Cardinality(CallsAt(p, i)) + Cardinality(Waiting(p, i)) <= 1
              /\ (\E k \in CallsAt(p, i) : log[k].site.via = "walk") => Waiting(p, i) = {}

\* a chain of three: the walk called the first pair, which returned the
\* Deferred; the Deferred, fired with a failure, called the error side of
\* the second pair and then the success side of the third
C19_Witness ==
    /\ Performed
    /\ TopLen = 3
    /\ Len(fired) = 1 /\ IsFailure(fired[1].v)
    /\ Len(TopCalls) = 4
    /\ TopCalls[2].site = Site(1, 1, "success", "walk")
    /\ TopCalls[3].site = Site(1, 2, "error", "deferred")
    /\ TopCalls[4].site = Site(1, 3, "success", "deferred")
    /\ HasSide(2, "success") /\ HasSide(3, "error")

\* the chain walked with the handler producing the outcome o at once, where
\* o is the value or the failure a Deferred was fired with
Twin(o) ==
    perform(with_callbacks(Intent(IF IsFailure(o) THEN "Bad" ELSE "Ok"), Chain),
            handlers, Machine(<<>>, <<>>, <<>>))
\* a value handed to a callback, with the fault in the representation of
\* the walk: a Failure stands for the sys.exc_info() triple
AsWalked(v) == IF IsFailure(v) THEN ExcInfo(v.exc) ELSE v
\* the calls made for the pairs of a chain, in order
PairCalls(calls) ==
    LET mine == SelectSeq(calls, LAMBDA c : c.site.pid = 1 /\ c.site.pos >= 1)
    IN  [k \in 1..Len(mine) |->
            [pos |-> mine[k].site.pos, side |-> mine[k].site.side, fn |-> mine[k].fn,
             args |-> <<AsWalked(mine[k].args[1])>>,
             exc |-> mine[k].exc, ret |-> mine[k].ret]]

\* C20 as stated: take an Effect whose handler returned a Deferred that was
\* then fired with o, and whose callbacks returned values that are neither
\* Effects nor Deferreds, or raised.  The calls made for its pairs are
\* those of the walk of the same chain whose handler produces o at once:
\* same pairs, sides, order, and arguments up to the representation of a
\* fault; and the Deferred ends in a failure exactly when that walk raises.
C20_AnyPlainReturnMatchesWalk ==
    (/\ Performed /\ Top.intent.type = "Async"
     /\ Len(fired) = 1 /\ fired[1].d = 1
     /\ \A k \in 1..Len(log) : log[k].fn # "defer")
    => \E twin \in {Twin(fired[1].v)} :
          LET a == PairCalls(log)
              b == PairCalls(twin.m.log)
          IN  /\ Len(a) = Len(b)
              /\ \A k \in 1..Len(a) :
                    /\ a[k].pos = b[k].pos /\ a[k].side = b[k].side
                    /\ a[k].fn = b[k].fn /\ a[k].args = b[k].args
              /\ IsFailure(defs[1].result) <=> twin.exc

\* C20, amended: the same with callbacks that, besides, never return a
\* Failure (to the Deferred a returned Failure is a raise, while the walk
\* takes the sys.exc_info() triple returned by the same callback for a
\* value).  Then the calls also have the same results, and the Deferred
\* ends with the value the walk returns when the walk does not raise.
C20_DeferredChainMatchesWalk ==
    (/\ Performed /\ Top.intent.type = "Async"
     /\ Len(fired) = 1 /\ fired[1].d = 1
     /\ \A k \in 1..Len(log) :
            /\ log[k].fn # "defer"
            /\ ~IsFailure(log[k].ret))
    => \E twin \in {Twin(fired[1].v)} :
          /\ PairCalls(log) = PairCalls(twin.m.log)
          /\ IsFailure(defs[1].result) <=> twin.exc
          /\ ~twin.exc => defs[1].result = twin.val

\* the Deferred was fired with a failure: the error side of the first pair
\* recovered, the success side of the second raised, the error side of the
\* third recovered
C20_Witness ==
    /\ Performed /\ Top.intent.type = "Async"
    /\ fired = <<[d |-> 1, v |-> Failure(Exc("Boom", None))]>>
    /\ TopLen = 3
    /\ Len(TopCalls) = 4
    /\ TopCalls[2].site = Site(1, 1, "error", "deferred") /\ TopCalls[2].fn = "recover"
    /\ TopCalls[2].args = <<Failure(Exc("Boom", None))>>
    /\ TopCalls[3].site = Site(1, 2, "success", "deferred") /\ TopCalls[3].exc
    /\ TopCalls[4].site = Site(1, 3, "error", "deferred") /\ TopCalls[4].fn = "recover"
    /\ defs[1].result = PyInt(0)
    /\ Len(Twin(fired[1].v).m.log) = 4

(***************************************************************************)
(* Faults of nested Effects.                                               *)
(***************************************************************************)
\* the call of the top-level chain made at position i caused a fault: it
\* raised, or it returned an Effect whose perform raised
Faulted(k) ==
    \/ log[k].exc
    \/ /\ IsEffect(log[k].ret)
       /\ \E p \in 1..Len(perfs) :
             perfs[p].parent = k /\ perfs[p].self = log[k].ret /\ perfs[p].exc

\* C18: a fault caused by a step of a synchronous perform, the failure of a
\* nested Effect performed in place included, leaves perform only when no
\* later pair has an error side; otherwise the error side of the nearest
\* such pair is called.
C18_FaultCapturedByLaterErrorSide ==
    \A k \in 1..Len(log) :
        (log[k].site.pid = 1 /\ log[k].site.via = "walk" /\ Faulted(k)) =>
            LET j == NextWith(log[k].site.pos, "error")
            IN  IF j = 0
                THEN outcome.t = "raised"
                ELSE \E x \in (k + 1)..Len(log) : log[x].site = Site(1, j, "error", "walk")

(***************************************************************************)
(* Effects met after the handoff, and intents without a handler.           *)
(***************************************************************************)
\* the failure f carries the exception e, as it is or as the first error of
\* a list of Deferreds
Carries(f, e) ==
    /\ IsFailure(f)
    /\ \/ f.exc = e
       \/ f.exc.cls = "FirstError" /\ f.exc.arg = Failure(e)
\* the top-level perform raised e, or returned a Deferred that has failed
\* with e
Surfaced(e) ==
    \/ outcome = Raised(e)
    \/ /\ outcome.t = "returned"
       /\ IsDeferred(outcome.val)
       /\ Carries(defs[outcome.val.id].result, e)
\* e was given to an error-side continuation of the top-level chain
Delivered(e) ==
    \E k \in 1..Len(log) :
        /\ log[k].site.pid = 1
        /\ log[k].site.side = "error"
        /\ log[k].site.pos >= 1
        /\ Carries(log[k].args[1], e)
\* no handler is found for the Effect of perform p
Unhandled(p) == IsNone(ResolveHandler(perfs[p].self, perfs[p].h))

\* C14 as stated: whenever no handler is found for the Effect of a perform,
\* be it the top-level Effect, a nested Effect or a child of a
\* ParallelEffects, the top-level perform raises NoEffectHandlerError or
\* returns a Deferred that has failed with it, also when later pairs of the
\* outer chain have error sides.
C14_NoHandlerAlwaysSurfaces ==
    \A p \in 1..Len(perfs) :
        (Performed /\ Unhandled(p)) =>
            Surfaced(Exc("NoEffectHandlerError", perfs[p].self.intent))

\* the failure that child i of the aggregate Deferred dl ended with, when
\* it ended with one
ChildFailed(dl, i) ==
    /\ defs[dl].resultList[i].t = "tuple"
    /\ defs[dl].resultList[i].items[1] = PyInt(0)
\* e is the failure of a child of a ParallelEffects, and the aggregate
\* failed with the failure of another child, which the top-level perform
\* surfaced or gave to an error-side continuation
Superseded(e) ==
    \E dl \in 1..Len(defs) :
        /\ defs[dl].owner = "DeferredList"
        /\ \E i, j \in 1..Len(defs[dl].resultList) :
              /\ i # j
              /\ ChildFailed(dl, i)
              /\ defs[dl].resultList[i].items[2] = Failure(e)
              /\ ChildFailed(dl, j)
              /\ defs[dl].resultList[j].items[2] # Failure(e)
              /\ \/ Surfaced(defs[dl].resultList[j].items[2].exc)
                 \/ Delivered(defs[dl].resultList[j].items[2].exc)

\* C14, amended: whenever no handler is found for the Effect of a perform,
\* that perform raises NoEffectHandlerError carrying the intent, and the
\* top-level perform raises it, or returns a Deferred that has failed with
\* it, or it was given, as the Deferred's failure, to an error-side
\* continuation of the outer chain, which may have consumed it, or it is
\* the failure of a child of a ParallelEffects whose aggregate failed with
\* the failure of another child.
C14_NoHandlerRaisedDeliveredOrSuperseded ==
    \A p \in 1..Len(perfs) :
        (Performed /\ Unhandled(p)) =>
            LET e == Exc("NoEffectHandlerError", perfs[p].self.intent)
            IN  /\ perfs[p].exc
                /\ perfs[p].val = e
                /\ Surfaced(e) \/ Delivered(e) \/ Superseded(e)
                /\ outcome.t = "raised" => outcome = Raised(e)

\* the perform of the first child of a ParallelEffects raised and the second
\* child has an intent no handler is found for: the error side of the only
\* pair was given the first child's failure, and the second child's error
\* reached neither the caller nor a continuation
C14_Witness ==
    /\ Performed
    /\ Top.intent = ParallelEffects(<<Effect(Intent("Bad")), Effect(Intent("Unknown"))>>)
    /\ TopLen = 1
    /\ Len(perfs) = 3 /\ Unhandled(3)
    /\ perfs[2].exc
    /\ perfs[3].exc
    /\ perfs[3].val = Exc("NoEffectHandlerError", Intent("Unknown"))
    /\ ~Surfaced(perfs[3].val) /\ ~Delivered(perfs[3].val)
    /\ Superseded(perfs[3].val)
    /\ \E k \in 1..Len(log) :
          /\ log[k].site = Site(1, 1, "error", "deferred")
          /\ log[k].fn = "recover"
          /\ log[k].args = <<Failure(Exc("FirstError", Failure(perfs[2].val)))>>
    /\ outcome.t = "returned"
    /\ defs[outcome.val.id].result = PyInt(0)

\* C16: whenever a call made for the top-level chain returns an Effect, by
\* the walk or by the Deferred the chain was handed to, that Effect is
\* performed against the same table, and neither the next call of the chain
\* nor the Deferred's result is given the Effect itself.
C16_EffectResolvedAfterEveryStep ==
    /\ \A k \in 1..Len(log) :
          (log[k].site.pid = 1 /\ ~log[k].exc /\ IsEffect(log[k].ret)) =>
              \E p \in 1..Len(perfs) :
                  /\ perfs[p].parent = k
                  /\ perfs[p].self = log[k].ret
                  /\ perfs[p].h = handlers
    /\ \A k \in 1..Len(log) :
          (log[k].site.pid = 1 /\ log[k].site.pos >= 1) => ~IsEffect(log[k].args[1])
    /\ \A d \in 1..Len(defs) : ~IsEffect(defs[d].result)

\* the Effects that Deferreds were fired with, in the order of the firings
FiredEffects == SelectSeq(fired, LAMBDA f : IsEffect(f.v))
\* the calls of the top-level chain made after perform p started
LaterCalls(p) == {x \in (perfs[p].parent + 1)..Len(log) : log[x].site.pid = 1}

\* no call logged so far returned an Effect, so that Effects come from the
\* firing of Deferreds only
NoEffectReturned == \A k \in 1..Len(log) : ~IsEffect(log[k].ret)

\* C17: when a Deferred that a handler or a callback returned is fired with
\* an Effect, that Effect is performed against the table of the top-level
\* perform; all calls of that perform come before any further call of the
\* top-level chain, and the first such call is not given the Effect but
\* what it resolved to: the value its perform returned, or on the error
\* side the failure of its perform, or, when its perform returned a
\* Deferred, what that Deferred was fired with, unless this is an Effect
\* again.  Stated for runs in which no handler or callback returns an
\* Effect itself and the top-level Effect is not a ParallelEffects, so that
\* every perform but the first is the perform of a fired Effect.
C17_FutureEffectPerformedFirst ==
    (Performed /\ ~HasPerformEffect(Top.intent) /\ NoEffectReturned) =>
    /\ Len(perfs) = 1 + Len(FiredEffects)
    /\ \A i \in 1..Len(FiredEffects) :
          LET p == perfs[i + 1]
              later == LaterCalls(i + 1)
          IN  /\ p.self = FiredEffects[i].v
              /\ p.h = handlers
              /\ \A x \in later, y \in 1..Len(log) : log[y].site.pid = i + 1 => y < x
              /\ later # {} =>
                    LET x == CHOOSE x \in later : \A y \in later : x <= y
                    IN  /\ ~IsEffect(log[x].args[1])
                        /\ IF p.exc
                           THEN /\ log[x].site.side = "error"
                                /\ log[x].args = <<Failure(p.val)>>
                           ELSE IF IsDeferred(p.val)
                           THEN \E f \in 1..Len(fired) :
                                    /\ fired[f].d = p.val.id
                                    /\ ~IsEffect(fired[f].v) => log[x].args = <<fired[f].v>>
                           ELSE /\ log[x].site.side = "success"
                                /\ log[x].args = <<p.val>>

====
